---- MODULE Spec2Model ----
(***************************************************************************)
(* Model of src/main.go: the Azure Blob Storage quick start.  main() is a  *)
(* straight-line workflow: load credentials.json, build the shared-key     *)
(* credential, create a container, write and open a temp file, upload it,  *)
(* list the container page by page, download the blob through a retrying   *)
(* stream, wait for the enter key, delete the container, close and remove  *)
(* the temp file.  Every step is one action (the upload and the stream     *)
(* read are the SDK's own small state machines).  The storage service and  *)
(* the azblob SDK are not part of the repository: their behaviour is       *)
(* modelled from the specification's sections 4.2 to 4.4 and 5.            *)
(***************************************************************************)
EXTENDS Integers, Sequences, FiniteSets, TLC

\* ---------------------------------------------------------------- bounds
\* longest payload written to the temp file
MaxLen == 3
\* largest block size the caller may pass to the upload
MaxBlockSize == 2
\* width of the upload worker pool (16 in main.go, scaled down)
Parallelism == 2
\* largest payload sent as one request (256 MB in the SDK, scaled down)
BlockBlobMaxUploadBlobBytes == 1
\* largest page the service returns to one list request
MaxPage == 2

\* ------------------------------------------------------------- constants
\* main.go:131  RetryReaderOptions{MaxRetryRequests: 20}
\*   (faulty variant: the retry option left at zero)
MaxRetryRequests_none == 20 - 20
MaxRetryRequests == 20

\* main.go:87  the blob is named after the temp file; blob names are
\* ordered, the names a container held before the run lie on both sides.
FileName == 2
PreNames == {1, 3}
Names == PreNames \cup {FileName}
PreContent == <<1, 0>>

Bytes == {0, 1}
Payloads == UNION {[1..n -> Bytes] : n \in 0..MaxLen}

\* main.go:128  Download(ctx, 0, azblob.CountToEnd, ...)
\*   (faulty variant: the download starts one byte in)
DownloadOffset_skip == 0 + 1
DownloadOffset == 0

VARIABLES
    pc,             \* position of main(): the step about to run
    credFile,       \* credentials.json as found on disk
    credentials,    \* the Credentials struct after json.Unmarshal
    container,      \* the container on the service: [exists, blobs]
    pre,            \* the container as it was before the run
    localFile,      \* the temp file: [exists, content]
    fileOpen,       \* the *os.File handle is open
    data,           \* the payload main() wrote to the temp file
    up,             \* the upload's state inside the SDK and the service
    marker,         \* list loop: the azblob.Marker
    visited,        \* list loop: the blob names printed so far
    listCalls,      \* list loop: number of list requests issued
    resp,           \* downloadResponse: "unset", "nil" or "ok"
    stream,         \* the retry reader over the download body
    downloadedData, \* the bytes.Buffer the body is read into
    history,        \* the operations executed so far, in order
    lastErr,        \* the last non-nil error a step returned
    deleteErr,      \* what the container Delete returned, "unset" before it
    exit            \* how the process ended, "" while it runs

vars == <<pc, credFile, credentials, container, pre, localFile, fileOpen, data,
          up, marker, visited, listCalls, resp, stream, downloadedData,
          history, lastErr, deleteErr, exit>>

\* ------------------------------------------------------------- helpers
Min(a, b) == IF a < b THEN a ELSE b
Max(a, b) == IF a < b THEN b ELSE a

NoErr == [step |-> "none", err |-> "nil"]
NoBlobs == [n \in {} |-> <<>>]
PutBlobIn(blobs, name, content) ==
    [n \in (DOMAIN blobs) \cup {name} |-> IF n = name THEN content ELSE blobs[n]]

\* errors a network call can return besides the 409, and a file call
NetErrs == {"StorageError", "error"}
FileErrs == {"error"}

\* main.go:31-42
\*   (faulty variant: no error is fatal)
handleErrors_ignore(err) == "continue"
handleErrors(err) ==
    IF err # "nil"
    THEN IF err = "ContainerAlreadyExists" THEN "continue" ELSE "fatal"
    ELSE "continue"

\* main.go:44-145: the order of the statements of main()
\*   (faulty variant: Delete placed before the gate)
StepAfter_deleteFirst(step) ==
    CASE step = "loadConfig"    -> "newCredential"
      [] step = "newCredential" -> "create"
      [] step = "create"        -> "writeFile"
      [] step = "writeFile"     -> "openFile"
      [] step = "openFile"      -> "upload"
      [] step = "upload"        -> "list"
      [] step = "list"          -> "download"
      [] step = "download"      -> "body"
      [] step = "body"          -> "read"
      [] step = "read"          -> "delete"
      [] step = "delete"        -> "gate"
      [] step = "gate"          -> "closeFile"
      [] step = "closeFile"     -> "removeFile"
      [] step = "removeFile"    -> "done"
StepAfter(step) ==
    CASE step = "loadConfig"    -> "newCredential"
      [] step = "newCredential" -> "create"
      [] step = "create"        -> "writeFile"
      [] step = "writeFile"     -> "openFile"
      [] step = "openFile"      -> "upload"
      [] step = "upload"        -> "list"
      [] step = "list"          -> "download"
      [] step = "download"      -> "body"
      [] step = "body"          -> "read"
      [] step = "read"          -> "gate"
      [] step = "gate"          -> "delete"
      [] step = "delete"        -> "closeFile"
      [] step = "closeFile"     -> "removeFile"
      [] step = "removeFile"    -> "done"

\* the effect of `err = f(); handleErrors(err)` at step `step`
Checked(step, err) ==
    /\ pc' = IF handleErrors(err) = "fatal" THEN "fatal" ELSE StepAfter(step)
    /\ exit' = IF handleErrors(err) = "fatal" THEN step ELSE exit
    /\ lastErr' = IF err = "nil" THEN lastErr ELSE [step |-> step, err |-> err]
    /\ history' = Append(history, step)
    /\ deleteErr' = deleteErr

\* ---------------------------------------------------------------- Init
UpIdle == [phase |-> "idle", blockSize |-> 0, numBlocks |-> 0,
           blockIDList |-> <<>>, pending |-> {}, inflight |-> {},
           staged |-> NoBlobs, failed |-> FALSE, outOfOrder |-> FALSE,
           commitIssued |-> FALSE]
StreamIdle == [body |-> <<>>, offset |-> 0, pos |-> 0, tries |-> 0,
               retried |-> FALSE, failed |-> FALSE]
NilMarker == [set |-> FALSE, val |-> 0]

CredFiles ==
    [open : {"missing", "ok"}, read : {"fail", "ok"}, json : {"invalid", "valid"},
     name : {"", "acct"}, key : {"", "a2V5", "not base64"}]
Containers ==
    {[exists |-> FALSE, blobs |-> NoBlobs]}
    \cup {[exists |-> TRUE, blobs |-> [n \in S |-> PreContent]] : S \in SUBSET PreNames}

Init ==
    /\ pc = "loadConfig"
    /\ credFile \in CredFiles
    /\ credentials = [name |-> "", key |-> ""]
    /\ container \in Containers
    /\ pre = container
    /\ localFile = [exists |-> FALSE, content |-> <<>>]
    /\ fileOpen = FALSE
    /\ data = <<>>
    /\ up = UpIdle
    /\ marker = NilMarker
    /\ visited = <<>>
    /\ listCalls = 0
    /\ resp = "unset"
    /\ stream = StreamIdle
    /\ downloadedData = <<>>
    /\ history = <<>>
    /\ lastErr = NoErr
    /\ deleteErr = "unset"
    /\ exit = ""

\* ------------------------------------------------------- config loading
\* main.go:48-54  os.Open, ioutil.ReadAll: the bytes read, errors ignored
ReadAll(f) ==
    IF f.open = "missing" THEN "empty"
    ELSE IF f.read = "fail" THEN "truncated"
    ELSE "full"

\* main.go:55-56  json.Unmarshal leaves the struct zero on invalid input
Unmarshal(f) ==
    IF ReadAll(f) = "full" /\ f.json = "valid"
    THEN [name |-> f.name, key |-> f.key]
    ELSE [name |-> "", key |-> ""]

\* main.go:58
\*   (faulty variant: && in place of ||)
CredentialsEmpty_both(c) == Len(c.name) = 0 /\ Len(c.key) = 0
CredentialsEmpty(c) == Len(c.name) = 0 \/ Len(c.key) = 0

\* main.go:48-60
LoadConfig ==
    /\ pc = "loadConfig"
    /\ credentials' = Unmarshal(credFile)
    /\ history' = Append(history, "loadConfig")
    /\ IF CredentialsEmpty(credentials')
       THEN pc' = "fatal" /\ exit' = "ConfigInvalid"
       ELSE pc' = StepAfter("loadConfig") /\ exit' = exit
    /\ UNCHANGED <<credFile, container, pre, localFile, fileOpen, data, up,
                   marker, visited, listCalls, resp, stream, downloadedData, lastErr,
                   deleteErr>>

\* azblob.NewSharedKeyCredential (spec 4.1): the key must decode as base64
KeyDecodes(key) == key \in {"", "a2V5"}

\* main.go:63-67
NewCredential ==
    /\ pc = "newCredential"
    /\ history' = Append(history, "newCredential")
    /\ IF KeyDecodes(credentials.key)
       THEN pc' = StepAfter("newCredential") /\ exit' = exit
       ELSE pc' = "fatal" /\ exit' = "InvalidCredential"
    /\ UNCHANGED <<credFile, credentials, container, pre, localFile, fileOpen, data,
                   up, marker, visited, listCalls, resp, stream, downloadedData,
                   lastErr, deleteErr>>

\* ------------------------------------------------------ container create
\* the service's answer to Create Container (spec 4.2): 409 exactly when the
\* name is taken, or some other failure
CreateOutcomes(c) ==
    (IF c.exists THEN {"ContainerAlreadyExists"} ELSE {"nil"}) \cup NetErrs

\* main.go:81-82
Create ==
    /\ pc = "create"
    /\ \E err \in CreateOutcomes(container) :
          /\ container' = IF err = "nil"
                          THEN [exists |-> TRUE, blobs |-> NoBlobs]
                          ELSE container
          /\ Checked("create", err)
    /\ UNCHANGED <<credFile, credentials, pre, localFile, fileOpen, data, up,
                   marker, visited, listCalls, resp, stream, downloadedData>>

\* ------------------------------------------------------------ temp file
\* main.go:86-89  (the payload is a literal in main.go; any payload here)
WriteFile ==
    /\ pc = "writeFile"
    /\ \E p \in Payloads, err \in {"nil"} \cup FileErrs :
          /\ data' = p
          /\ localFile' = IF err = "nil"
                          THEN [exists |-> TRUE, content |-> p]
                          ELSE localFile
          /\ Checked("writeFile", err)
    /\ UNCHANGED <<credFile, credentials, container, pre, fileOpen, up,
                   marker, visited, listCalls, resp, stream, downloadedData>>

\* main.go:92-94
OpenFile ==
    /\ pc = "openFile"
    /\ \E err \in {"nil"} \cup FileErrs :
          /\ fileOpen' = (err = "nil")
          /\ Checked("openFile", err)
    /\ UNCHANGED <<credFile, credentials, container, pre, localFile, data, up,
                   marker, visited, listCalls, resp, stream, downloadedData>>

\* --------------------------------------------------------------- upload
\* spec 4.3: number of blocks of a payload of `size` bytes
NumBlocks(size, blockSize) == ((size - 1) \div blockSize) + 1

\* spec 4.3: block k (1-based) of the byte source
Chunk(bytes, k, blockSize) ==
    SubSeq(bytes, (k - 1) * blockSize + 1, Min(k * blockSize, Len(bytes)))

\* the identifier a worker gives block k
BlockID(k) == 10 * k

\* spec 4.3/5: where the identifier of a finished block k goes in the list
\* that the commit sends: at the block's own position
\*   (faulty variant: identifiers appended in completion order)
PlaceBlockID_completionOrder(list, k) ==
    LET free == {i \in 1..Len(list) : list[i] = 0}
        first == CHOOSE i \in free : \A j \in free : i <= j
    IN  [list EXCEPT ![first] = BlockID(k)]
PlaceBlockID(list, k) == [list EXCEPT ![k] = BlockID(k)]

\* the service's Put Block List: the blob is the listed blocks in list order
RECURSIVE Concatenate(_, _)
Concatenate(ids, staged) ==
    IF ids = <<>> THEN <<>>
    ELSE (IF Head(ids) \in DOMAIN staged THEN staged[Head(ids)] ELSE <<>>)
         \o Concatenate(Tail(ids), staged)

\* main.go:105-107 into the SDK: one request, or blocks plus a commit
UploadBegin ==
    /\ pc = "upload" /\ up.phase = "idle"
    /\ \E b \in 1..MaxBlockSize :
          LET size == Len(localFile.content) IN
          IF size <= BlockBlobMaxUploadBlobBytes
          THEN up' = [up EXCEPT !.phase = "single", !.blockSize = b]
          ELSE up' = [up EXCEPT !.phase = "blocks", !.blockSize = b,
                                !.numBlocks = NumBlocks(size, b),
                                !.blockIDList = [i \in 1..NumBlocks(size, b) |-> 0],
                                !.pending = 1..NumBlocks(size, b)]
    /\ UNCHANGED <<pc, credFile, credentials, container, pre, localFile, fileOpen,
                   data, marker, visited, listCalls, resp, stream, downloadedData,
                   history, lastErr, exit, deleteErr>>

\* the single-request upload and main.go:108
PutBlob ==
    /\ pc = "upload" /\ up.phase = "single"
    /\ \E err \in {"nil"} \cup NetErrs :
          /\ container' = IF err = "nil"
                          THEN [container EXCEPT
                                  !.blobs = PutBlobIn(@, FileName, localFile.content)]
                          ELSE container
          /\ up' = [up EXCEPT !.phase = IF err = "nil" THEN "committed" ELSE "failed"]
          /\ Checked("upload", err)
    /\ UNCHANGED <<credFile, credentials, pre, localFile, fileOpen, data,
                   marker, visited, listCalls, resp, stream, downloadedData>>

\* a worker of the pool takes a block
BlockStart(k) ==
    /\ pc = "upload" /\ up.phase = "blocks" /\ ~up.failed
    /\ k \in up.pending
    /\ Cardinality(up.inflight) < Parallelism
    /\ up' = [up EXCEPT !.pending = @ \ {k}, !.inflight = @ \cup {k}]
    /\ UNCHANGED <<pc, credFile, credentials, container, pre, localFile, fileOpen,
                   data, marker, visited, listCalls, resp, stream, downloadedData,
                   history, lastErr, exit, deleteErr>>

\* the block's Put Block succeeds: the service holds it, uncommitted
BlockDone(k) ==
    /\ pc = "upload" /\ up.phase = "blocks"
    /\ k \in up.inflight
    /\ up' = [up EXCEPT
                !.inflight = @ \ {k},
                !.blockIDList = PlaceBlockID(@, k),
                !.staged = PutBlobIn(@, BlockID(k),
                                     Chunk(localFile.content, k, up.blockSize)),
                !.outOfOrder = @ \/ (\E j \in 1..(k - 1) :
                                        BlockID(j) \notin DOMAIN up.staged)]
    /\ UNCHANGED <<pc, credFile, credentials, container, pre, localFile, fileOpen,
                   data, marker, visited, listCalls, resp, stream, downloadedData,
                   history, lastErr, exit, deleteErr>>

\* the block's Put Block fails for good
BlockFail(k) ==
    /\ pc = "upload" /\ up.phase = "blocks"
    /\ k \in up.inflight
    /\ up' = [up EXCEPT !.inflight = @ \ {k}, !.failed = TRUE]
    /\ UNCHANGED <<pc, credFile, credentials, container, pre, localFile, fileOpen,
                   data, marker, visited, listCalls, resp, stream, downloadedData,
                   history, lastErr, exit, deleteErr>>

\* a failed block ends the upload with its error; main.go:108
UploadAbort ==
    /\ pc = "upload" /\ up.phase = "blocks" /\ up.failed
    /\ \E err \in NetErrs :
          /\ up' = [up EXCEPT !.phase = "failed"]
          /\ Checked("upload", err)
    /\ UNCHANGED <<credFile, credentials, container, pre, localFile, fileOpen, data,
                   marker, visited, listCalls, resp, stream, downloadedData>>

\* all blocks are staged: the commit request is issued
CommitBegin ==
    /\ pc = "upload" /\ up.phase = "blocks" /\ ~up.failed
    /\ up.pending = {} /\ up.inflight = {}
    /\ up' = [up EXCEPT !.phase = "commit", !.commitIssued = TRUE]
    /\ UNCHANGED <<pc, credFile, credentials, container, pre, localFile, fileOpen,
                   data, marker, visited, listCalls, resp, stream, downloadedData,
                   history, lastErr, exit, deleteErr>>

\* the service's answer to the commit, and main.go:108
CommitDone ==
    /\ pc = "upload" /\ up.phase = "commit"
    /\ \E err \in {"nil"} \cup NetErrs :
          /\ container' = IF err = "nil"
                          THEN [container EXCEPT
                                  !.blobs = PutBlobIn(@, FileName,
                                              Concatenate(up.blockIDList, up.staged))]
                          ELSE container
          /\ up' = [up EXCEPT !.phase = IF err = "nil" THEN "committed" ELSE "failed"]
          /\ Checked("upload", err)
    /\ UNCHANGED <<credFile, credentials, pre, localFile, fileOpen, data,
                   marker, visited, listCalls, resp, stream, downloadedData>>

Upload ==
    \/ UploadBegin
    \/ PutBlob
    \/ \E k \in 1..(MaxLen + 1) : BlockStart(k) \/ BlockDone(k) \/ BlockFail(k)
    \/ UploadAbort
    \/ CommitBegin
    \/ CommitDone

\* ----------------------------------------------------------------- list
\* azblob.Marker.NotDone: Val == nil || *Val != ""  (val 0 is the empty string)
NotDone(m) == ~m.set \/ m.val # 0

RECURSIVE SortedSeq(_)
SortedSeq(S) ==
    IF S = {} THEN <<>>
    ELSE LET lo == CHOOSE x \in S : \A y \in S : x <= y
         IN  <<lo>> \o SortedSeq(S \ {lo})

\* the service's answer to one list request (spec 4.2): up to k names in
\* name order from the marker on, and the marker of the first name left out,
\* empty when none is
ListBlobsFlatSegment(c, m, k) ==
    LET from == IF m.set THEN m.val ELSE 0
        rest == SortedSeq({n \in DOMAIN c.blobs : n >= from})
        cnt  == Min(k, Len(rest))
    IN  [items |-> SubSeq(rest, 1, cnt),
         NextMarker |-> [set |-> TRUE,
                         val |-> IF cnt < Len(rest) THEN rest[cnt + 1] ELSE 0]]

\* main.go:119
\*   (faulty variant: the marker is not advanced)
AdvanceMarker_stale(m, listBlob) == m
AdvanceMarker(m, listBlob) == listBlob.NextMarker

\* main.go:112-124: one iteration of the list loop
ListPage ==
    /\ pc = "list" /\ NotDone(marker)
    /\ \E k \in 1..MaxPage, err \in {"nil"} \cup NetErrs :
          LET listBlob == ListBlobsFlatSegment(container, marker, k) IN
          /\ listCalls' = listCalls + 1
          /\ history' = Append(history, "list")
          /\ lastErr' = IF err = "nil" THEN lastErr ELSE [step |-> "list", err |-> err]
          /\ IF err = "nil"
             THEN /\ marker' = AdvanceMarker(marker, listBlob)
                  /\ visited' = visited \o listBlob.items
                  /\ pc' = "list" /\ exit' = exit
             ELSE /\ UNCHANGED <<marker, visited>>
                  \* an error that handleErrors lets through leaves listBlob nil
                  /\ pc' = IF handleErrors(err) = "fatal" THEN "fatal" ELSE "panic"
                  /\ exit' = IF handleErrors(err) = "fatal" THEN "list" ELSE "panic"
    /\ UNCHANGED <<credFile, credentials, container, pre, localFile, fileOpen, data,
                   up, resp, stream, downloadedData, deleteErr>>

\* main.go:112: the loop condition fails
ListExit ==
    /\ pc = "list" /\ ~NotDone(marker)
    /\ pc' = StepAfter("list")
    /\ UNCHANGED <<credFile, credentials, container, pre, localFile, fileOpen, data,
                   up, marker, visited, listCalls, resp, stream, downloadedData,
                   history, lastErr, exit, deleteErr>>

\* ------------------------------------------------------------- download
\* the service's answer to Get Blob
DownloadOutcomes(c) ==
    (IF c.exists /\ FileName \in DOMAIN c.blobs THEN {"nil"} ELSE {}) \cup NetErrs

\* the body of a range request from `from` to the end
RangeFrom(content, from) == SubSeq(content, from + 1, Len(content))

\* main.go:128: the error is assigned and not looked at
Download ==
    /\ pc = "download"
    /\ \E err \in DownloadOutcomes(container) :
          /\ resp' = IF err = "nil" THEN "ok" ELSE "nil"
          /\ stream' = IF err = "nil"
                       THEN [stream EXCEPT
                               !.body = RangeFrom(container.blobs[FileName],
                                                  DownloadOffset)]
                       ELSE stream
          /\ lastErr' = IF err = "nil" THEN lastErr
                        ELSE [step |-> "download", err |-> err]
    /\ pc' = StepAfter("download")
    /\ history' = Append(history, "download")
    /\ UNCHANGED <<credFile, credentials, container, pre, localFile, fileOpen, data,
                   up, marker, visited, listCalls, downloadedData, exit, deleteErr>>

\* main.go:131: a method call through downloadResponse, nil after an error
Body ==
    /\ pc = "body"
    /\ history' = Append(history, "body")
    /\ IF resp = "nil"
       THEN pc' = "panic" /\ exit' = "panic"
       ELSE pc' = StepAfter("body") /\ exit' = exit
    /\ UNCHANGED <<credFile, credentials, container, pre, localFile, fileOpen, data,
                   up, marker, visited, listCalls, resp, stream, downloadedData,
                   lastErr, deleteErr>>

\* spec 4.4: the range a retry asks for starts at the last delivered offset
RetryRange(s) == s.offset

\* main.go:135: one Read of the stream delivers the next n bytes
ReadChunk ==
    /\ pc = "read" /\ stream.pos < Len(stream.body)
    /\ \E n \in 1..(Len(stream.body) - stream.pos) :
          /\ downloadedData' =
                downloadedData \o SubSeq(stream.body, stream.pos + 1, stream.pos + n)
          /\ stream' = [stream EXCEPT !.offset = @ + n, !.pos = @ + n, !.tries = 0]
    /\ UNCHANGED <<pc, credFile, credentials, container, pre, localFile, fileOpen,
                   data, up, marker, visited, listCalls, resp, history, lastErr,
                   exit, deleteErr>>

\* main.go:135-136: the stream ends, ReadFrom returns nil
ReadEOF ==
    /\ pc = "read" /\ stream.pos >= Len(stream.body)
    /\ stream' = [stream EXCEPT !.tries = 0]
    /\ Checked("read", "nil")
    /\ UNCHANGED <<credFile, credentials, container, pre, localFile, fileOpen, data,
                   up, marker, visited, listCalls, resp, downloadedData>>

\* spec 4.4: the connection drops inside a Read; the stream asks again for
\* the range from the delivered offset, up to MaxRetryRequests times within
\* the Read, and then gives the error to ReadFrom (main.go:135-136)
ReadDrop ==
    /\ pc = "read"
    /\ IF stream.tries >= MaxRetryRequests
       THEN /\ stream' = [stream EXCEPT !.failed = TRUE]
            /\ Checked("read", "error")
       ELSE /\ stream' = [stream EXCEPT
                            !.tries = @ + 1,
                            !.pos = RetryRange(stream),
                            !.retried = @ \/ (0 < stream.offset
                                              /\ stream.offset < Len(stream.body))]
            /\ UNCHANGED <<pc, history, lastErr, deleteErr, exit>>
    /\ UNCHANGED <<credFile, credentials, container, pre, localFile, fileOpen, data,
                   up, marker, visited, listCalls, resp, downloadedData>>

\* -------------------------------------------------------------- cleanup
\* main.go:139-141: the enter-key gate
Gate ==
    /\ pc = "gate"
    /\ pc' = StepAfter("gate")
    /\ history' = Append(history, "gate")
    /\ UNCHANGED <<credFile, credentials, container, pre, localFile, fileOpen, data,
                   up, marker, visited, listCalls, resp, stream, downloadedData,
                   lastErr, deleteErr, exit>>

\* the service's answer to Delete Container
DeleteOutcomes(c) == (IF c.exists THEN {"nil"} ELSE {}) \cup NetErrs

\* main.go:142: the results of Delete are discarded
AfterDelete(err) == "continue"

\* main.go:142
Delete ==
    /\ pc = "delete"
    /\ \E err \in DeleteOutcomes(container) :
          /\ container' = IF err = "nil"
                          THEN [exists |-> FALSE, blobs |-> NoBlobs]
                          ELSE container
          /\ deleteErr' = err
          /\ pc' = IF AfterDelete(err) = "fatal" THEN "fatal" ELSE StepAfter("delete")
          /\ exit' = IF AfterDelete(err) = "fatal" THEN "delete" ELSE exit
    /\ history' = Append(history, "delete")
    /\ UNCHANGED <<credFile, credentials, pre, localFile, fileOpen, data, up,
                   marker, visited, listCalls, resp, stream, downloadedData, lastErr>>

\* main.go:143
CloseFile ==
    /\ pc = "closeFile"
    /\ fileOpen' = FALSE
    /\ pc' = StepAfter("closeFile")
    /\ history' = Append(history, "closeFile")
    /\ UNCHANGED <<credFile, credentials, container, pre, localFile, data, up,
                   marker, visited, listCalls, resp, stream, downloadedData,
                   lastErr, deleteErr, exit>>

\* main.go:144-145: os.Remove, its result discarded, and main returns
RemoveFile ==
    /\ pc = "removeFile"
    /\ \E err \in {"nil"} \cup FileErrs :
          localFile' = IF err = "nil"
                       THEN [exists |-> FALSE, content |-> <<>>]
                       ELSE localFile
    /\ pc' = StepAfter("removeFile")
    /\ exit' = "ok"
    /\ history' = Append(history, "removeFile")
    /\ UNCHANGED <<credFile, credentials, container, pre, fileOpen, data, up,
                   marker, visited, listCalls, resp, stream, downloadedData,
                   lastErr, deleteErr>>

Next ==
    \/ LoadConfig
    \/ NewCredential
    \/ Create
    \/ WriteFile
    \/ OpenFile
    \/ Upload
    \/ ListPage
    \/ ListExit
    \/ Download
    \/ Body
    \/ ReadChunk
    \/ ReadEOF
    \/ ReadDrop
    \/ Gate
    \/ Delete
    \/ CloseFile
    \/ RemoveFile

Spec == Init /\ [][Next]_vars

\* ================================================================ claims
Last(seq) == seq[Len(seq)]
Occurs(op) == \E i \in 1..Len(history) : history[i] = op
IsPrefix(a, b) == Len(a) <= Len(b) /\ a = SubSeq(b, 1, Len(a))

\* C1: every step that returns an error other than ContainerAlreadyExists
\* (Create, temp-file write, temp-file open, upload, each list request, the
\* download request, the read of the download stream) makes the process log
\* and terminate with no later step executed; only ContainerAlreadyExists
\* lets the workflow go on.
C1Steps == {"create", "writeFile", "openFile", "upload", "list", "download", "read"}
C1_EveryOtherErrorIsFatal ==
    (lastErr.step \in C1Steps /\ lastErr.err # "ContainerAlreadyExists")
        => /\ pc = "fatal"
           /\ exit = lastErr.step
           /\ Last(history) = lastErr.step

\* C2: with credentials.json missing, unreadable, not valid JSON, or holding
\* an empty account name or an empty access key, the process terminates with
\* ConfigInvalid before any network request is issued and before the temp
\* file is written.
ConfigInvalid(f) ==
    \/ f.open = "missing"
    \/ f.read = "fail"
    \/ f.json = "invalid"
    \/ f.name = ""
    \/ f.key = ""
NetworkOps == {"create", "upload", "list", "download", "body", "read", "delete"}
C2_ConfigInvalidStopsBeforeAnyRequest ==
    ConfigInvalid(credFile)
        => /\ pc \in {"loadConfig", "fatal"}
           /\ pc = "fatal" => exit = "ConfigInvalid"
           /\ \A i \in 1..Len(history) : history[i] \notin NetworkOps \cup {"writeFile"}
           /\ ~localFile.exists
           /\ container = pre
           /\ up.phase = "idle"
C2_Witness ==
    /\ pc = "fatal" /\ exit = "ConfigInvalid"
    /\ credFile.open = "ok" /\ credFile.read = "ok" /\ credFile.json = "valid"
    /\ credFile.name = "acct" /\ credFile.key = ""

\* C3: an error returned by the container Delete during cleanup is fatal:
\* the process logs it and terminates instead of closing and removing the
\* temp file and exiting normally.
C3_DeleteErrorIsFatal ==
    deleteErr \notin {"unset", "nil"}
        => /\ pc = "fatal"
           /\ exit = "delete"
           /\ ~Occurs("closeFile") /\ ~Occurs("removeFile")

\* C4: round trip: after a successful upload of payload P, the download of
\* the blob from offset 0 to the end, read to completion, gives exactly P,
\* whether P went up as one request or as blocks plus a commit.
AfterRead == {"gate", "delete", "closeFile", "removeFile", "done"}
C4_RoundTrip ==
    /\ pc \in AfterRead => downloadedData = data
    /\ (pc \in {"list", "download"} /\ up.phase = "committed")
          => (FileName \in DOMAIN container.blobs /\ container.blobs[FileName] = data)
C4_Witness ==
    /\ pc = "gate"
    /\ up.numBlocks >= 2 /\ up.outOfOrder
    /\ Len(data) >= 2 /\ downloadedData = data

\* C5: pagination completeness: over a container of N blobs that does not
\* change, with pages smaller than N, the list loop from the empty marker
\* that feeds each next-marker into the following request and stops at the
\* empty marker visits exactly the N names, each once, and terminates (it
\* issues at most N requests, one when N is 0).
ListScope == {"list", "download", "body", "read", "gate", "delete"}
C5_PaginationComplete ==
    pc \in ListScope =>
        LET all == SortedSeq(DOMAIN container.blobs) IN
        /\ IsPrefix(visited, all)
        /\ listCalls <= Max(1, Len(all))
        /\ (pc # "list" \/ ~NotDone(marker)) => visited = all
        /\ (pc = "list" /\ visited = all /\ listCalls > 0) => ~NotDone(marker)
C5_Witness ==
    /\ pc = "download"
    /\ listCalls >= 2
    /\ Len(visited) = Cardinality(Names)
    /\ visited = SortedSeq(Names)

\* C6: chunking: a payload of S bytes uploaded in blocks of B bytes by the
\* worker pool is committed as exactly ceil(S/B) blocks whose order is the
\* byte order of the payload, whatever the order the block uploads finish in.
CeilDiv(s, b) == CHOOSE n \in 0..s : n * b >= s /\ (n - 1) * b < s
C6_ChunkingCorrect ==
    /\ Cardinality(up.inflight) <= Parallelism
    /\ up.phase = "commit" =>
          /\ Len(up.blockIDList) = CeilDiv(Len(localFile.content), up.blockSize)
          /\ \A i \in 1..Len(up.blockIDList) : up.blockIDList[i] \in DOMAIN up.staged
          /\ Concatenate(up.blockIDList, up.staged) = localFile.content
C6_Witness ==
    /\ up.phase = "commit"
    /\ up.outOfOrder
    /\ Len(localFile.content) % up.blockSize # 0
    /\ Len(up.blockIDList) >= 2

\* C7: failure containment: once a block upload of a multi-block upload has
\* failed for good, the commit is never issued, the workflow ends failed at
\* the upload, and no blob is visible under the name from then on.
C7_FailureContainment ==
    up.failed =>
        /\ ~up.commitIssued
        /\ FileName \notin DOMAIN container.blobs
        /\ pc \in {"upload", "fatal"}
        /\ pc = "fatal" => (exit = "upload" /\ up.phase = "failed")
C7_Witness ==
    /\ pc = "fatal" /\ exit = "upload"
    /\ up.failed
    /\ DOMAIN up.staged # {}

\* C8: retry transparency: while the drops inside a read stay within the
\* retry budget (20), the stream asks again from the last delivered offset
\* and the caller gets the whole byte sequence, nothing lost or repeated;
\* the read fails, fatally, only with the budget exhausted.
C8_RetryTransparent ==
    /\ pc = "read" =>
          /\ downloadedData = SubSeq(stream.body, 1, stream.offset)
          /\ stream.pos = stream.offset
          /\ stream.tries <= 20
          /\ ~stream.failed
    /\ stream.failed => (stream.tries >= 20 /\ pc = "fatal" /\ exit = "read")
    /\ pc = "gate" => (downloadedData = stream.body /\ ~stream.failed)
C8_Witness ==
    /\ pc = "gate"
    /\ stream.retried
    /\ Len(stream.body) >= 2
    /\ downloadedData = stream.body

\* C9: the operations of a run occur in the order config load, client
\* construction, Create, upload, listing, download, enter-key gate, Delete,
\* temp-file removal; Delete and the removal never come before the gate, and
\* the gate is passed once (exactly once in a run that reaches the cleanup).
Rank(op) ==
    CASE op = "loadConfig"    -> 1
      [] op = "newCredential" -> 2
      [] op = "create"        -> 3
      [] op = "writeFile"     -> 4
      [] op = "openFile"      -> 5
      [] op = "upload"        -> 6
      [] op = "list"          -> 7
      [] op = "download"      -> 8
      [] op = "body"          -> 9
      [] op = "read"          -> 10
      [] op = "gate"          -> 11
      [] op = "delete"        -> 12
      [] op = "closeFile"     -> 13
      [] op = "removeFile"    -> 14
GateCount == Cardinality({i \in 1..Len(history) : history[i] = "gate"})
C9_OperationOrder ==
    /\ \A i \in 1..(Len(history) - 1) :
          \/ Rank(history[i]) < Rank(history[i + 1])
          \/ (history[i] = "list" /\ history[i + 1] = "list")
    /\ GateCount <= 1
    /\ \A i \in 1..Len(history) :
          history[i] \in {"delete", "removeFile"}
              => \E j \in 1..(i - 1) : history[j] = "gate"
    /\ pc \in {"delete", "closeFile", "removeFile", "done"} => GateCount = 1
    /\ pc = "done" =>
          \A op \in {"loadConfig", "newCredential", "create", "upload", "list",
                     "download", "gate", "delete", "removeFile"} : Occurs(op)
C9_Witness ==
    /\ pc = "done"
    /\ listCalls >= 2
    /\ Last(history) = "removeFile"

\* C10: when Create reports ContainerAlreadyExists the program goes on against
\* the container that was already there: it uploads its blob into it and,
\* after the gate, issues Delete on it, so that the container that existed
\* before the run, with the blobs it held, is gone after a run that completes.
C10_PreexistingContainerGone ==
    pre.exists =>
        /\ (lastErr.step = "create" /\ lastErr.err = "ContainerAlreadyExists")
              => pc # "fatal"
        /\ (pc \in {"list", "download"} /\ up.phase = "committed")
              => /\ container.exists
                 /\ DOMAIN container.blobs = DOMAIN pre.blobs \cup {FileName}
        /\ pc = "done" => (Occurs("delete") /\ ~container.exists)
====
